---- MODULE Spec2Model ----
(***************************************************************************)
(* A model of instax/sp1.py: the SP1 client (connect, send_and_recieve,    *)
(* sendCommand, close), the print procedure printPhoto with its completion *)
(* poll checkPrintStatus, and the transport worker SocketClientThread the  *)
(* client talks to over the two queues cmd_q and reply_q.                  *)
(*                                                                         *)
(* Time is counted in ticks of one poll sleep, time.sleep(0.1); the code   *)
(* reads the clock only as int(time.time()), a whole number of seconds.    *)
(* Only differences of clock readings are observed, so the clock is        *)
(* rebased to its sub-second part whenever a Session call begins.          *)
(***************************************************************************)
EXTENDS Integers, Sequences, FiniteSets, TLC

\* ------------------------------------------------------------- bounds
\* Images have k full segments plus a remainder, k in 0..MaxSegs.
MaxSegs == 2
\* checkPrintStatus is also called on its own with timeout in 0..MaxPollTimeout.
MaxPollTimeout == 3
\* Images are generated from a seed in 0..MaxSeed.
MaxSeed == 1
\* The free client of SpecSession makes at most MaxCalls Session calls.
MaxCalls == 2
\* The free client of SpecTimeout makes at most MaxTimedCalls Session calls.
MaxTimedCalls == 2
\* The free client of SpecLife makes at most MaxLifeCalls Session calls.
MaxLifeCalls == 3
\* SpecAbort prints images of 0..MaxAbortSegs full segments and one byte.
MaxAbortSegs == 1
\* The contents of a reply frame that getPrinterInformation reads are one
\* of 0..MaxValue.
MaxValue == 1

\* -------------------------------------------------- program constants
\* sp1.py:238-246, the fixed segment size.
SegSize == 960
\* sp1.py:80, send_and_recieve(encodedPacket, 5).
CmdTimeout == 5
\* sp1.py:164, close(self, timeout=10).
CloseTimeout == 10
\* sp1.py:18, the default of the constructor's timeout parameter.
DefaultTimeout == 10
\* sp1.py:46, 70, 180: time.sleep(0.1), ten polls to the second.
TicksPerSec == 10
\* sp1.py:258, checkPrintStatus(30).
PollAttempts == 30
\* sp1.py:206, progressTotal.
ProgressTotal == 100
\* packet.py (not in src/): the sentinel return code of a reply header.
RTN_E_RCV_FRAME == 0
\* packet.py (not in src/): some other return code of a reply header.
RTN_OTHER == 127

ReturnCodes == {RTN_E_RCV_FRAME, RTN_OTHER}

\* The constructor's timeout parameter, as callers may pass it.
CtorTimeouts == {3, DefaultTimeout, 12}

\* ------------------------------------------------------------ packets
\* A command packet as the Session builds it (sp1.py:85-162): the command
\* type, up to three numeric fields and the payload bytes.
Pkt(cmd, a, b, c, payload) ==
    [cmd |-> cmd, a |-> a, b |-> b, c |-> c, payload |-> payload]

NoPkt == Pkt("-", 0, 0, 0, <<>>)

\* ---------------------------------------------------------- envelopes
\* ClientCommand(type, data): an instruction for the worker.  req is the
\* number of the Session call that enqueued it (not in the code: it lets
\* the properties tell which call a reply answers).
ClientCommand(type, pkt, req) == [type |-> type, pkt |-> pkt, req |-> req]

\* The data of a ClientReply: None, received bytes (a reply frame that
\* answers command cmd with return code rc), or an error detail.
\* val stands for the rest of a frame's contents (header fields, payload).
NoneData == [k |-> "none", cmd |-> "-", rc |-> 0, req |-> 0, val |-> 0]

BytesData(cmd, rc, req) ==
    [k |-> "bytes", cmd |-> cmd, rc |-> rc, req |-> req, val |-> 0]

ErrData(req) == [k |-> "err", cmd |-> "-", rc |-> 0, req |-> req, val |-> 0]

\* ClientReply(type, data): a reply envelope.  intime tells whether the
\* worker enqueued it while the call it answers was still in its polling
\* loop with the loop's condition true (not in the code: the properties
\* use it).
ClientReply(type, data, intime) == [type |-> type, data |-> data, intime |-> intime]

NoReply == ClientReply("-", NoneData, FALSE)

VARIABLES
    \* the client thread
    pc,          \* where the client program (printPhoto, ...) stands
    cpc,         \* where the running Session call stands
    cop,         \* the running Session call: connect, send or close
    exc,         \* the exception the Session call raised, or "none"
    reply,       \* the reply send_and_recieve returned
    ctimeout,    \* the timeout, in seconds, of the running call
    start,       \* start = int(time.time()) of the running call
    began,       \* the clock, in ticks, when the running call began
    now,         \* the clock, in ticks
    callNo,      \* how many Session calls were begun
    callsLeft,   \* how many calls the free client may still make
    \* the SP1 object
    ctorTimeout, \* the timeout passed to __init__
    timeout,     \* self.timeout
    comms,       \* self.comms: 0 for None, else the worker's number
    \* the transport
    workers,     \* the SocketClientThread objects created so far
    \* the client program and its locals
    prog,        \* which program the client runs
    imgLen,      \* len(imageBytes)
    imgSeed,     \* which image of that length imageBytes is
    bytesToSend, bytesSent, segment,    \* printPhoto's transfer loop
    x,           \* printPhoto's PrePrint loop variable
    pollTimeout, \* checkPrintStatus's parameter timeout
    attempt,     \* how many turns of checkPrintStatus's loop are over
    printStatus, \* what checkPrintStatus returned
    \* getPrinterInformation's locals
    printerVersion, printerModel, printCount, printerInformation,
    \* what an observer of the client sees
    progressLog, \* the calls of the progress callback, in order
    rcLog,       \* the return codes of the Type195 replies, in order
    log          \* the Session calls the program made, in order

sessVars == <<cpc, cop, exc, reply, ctimeout, start, began, now, callNo,
              comms, workers>>

objVars == <<ctorTimeout, timeout>>

imgVars == <<prog, imgLen, imgSeed>>

segVars == <<bytesToSend, bytesSent, segment>>

pollVars == <<pollTimeout, attempt, printStatus, rcLog>>

printVars == <<imgVars, segVars, x, pollVars, progressLog>>

infoVars == <<printerVersion, printerModel, printCount, printerInformation>>

vars == <<pc, callsLeft, sessVars, objVars, infoVars, printVars, log>>

\* ------------------------------------------------------------ helpers
\* int(time.time()) of a clock reading in ticks.
IntTime(t) == t \div TicksPerSec

\* sp1.py:25: __init__ sets self.timeout (the parameter is not used).
InitTimeout(param) == 10

\* sp1.py:38, 61, 170: the condition of the polling loops.
LoopContinues(t, st, tmo) == IntTime(t) < st + tmo

\* CarriesData with every reply counted as carrying data.
CarriesAnything(r) == r.type # "-"

\* sp1.py:64: send_and_recieve looks only at replies that carry data.
CarriesData(r) == r.data.k # "none"

\* sp1.py:41, 65, 173: reply.type == ClientReply.SUCCESS.
IsSuccess(r) == r.type = "SUCCESS"

\* A fresh SocketClientThread (sp1.py:32-33): started, both queues empty.
NewWorker ==
    [status |-> "idle", cmd_q |-> <<>>, reply_q |-> <<>>, alive |-> TRUE,
     cur |-> ClientCommand("-", NoPkt, 0), lastSent |-> "-"]

Put(w, instrs) == [w EXCEPT !.cmd_q = @ \o instrs]

\* ------------------------------------------------------ Session calls
\* sp1.py:29-37: connect() up to the polling loop: a new worker is created
\* and started, CONNECT is enqueued, the clock (t, in ticks) is read.
ConnectBegin(t) ==
    /\ workers' = Append(workers,
                    Put(NewWorker, <<ClientCommand("CONNECT", NoPkt, callNo + 1)>>))
    /\ comms' = Len(workers) + 1
    /\ now' = t % TicksPerSec
    /\ began' = now'
    /\ start' = IntTime(now')
    /\ ctimeout' = timeout
    /\ callNo' = callNo + 1
    /\ cop' = "connect"
    /\ cpc' = "poll"
    /\ exc' = "none"
    /\ reply' = NoReply

\* sp1.py:74-80 and 50-60: sendCommand(commandPacket) up to the polling
\* loop of send_and_recieve: SEND then RECEIVE are enqueued, the clock is
\* read.  With self.comms None the attribute access fails at once.
SendBegin(pkt, t) ==
    /\ callNo' = callNo + 1
    /\ cop' = "send"
    /\ reply' = NoReply
    /\ now' = t % TicksPerSec
    /\ began' = now'
    /\ start' = IntTime(now')
    /\ ctimeout' = CmdTimeout
    /\ comms' = comms
    /\ IF comms = 0
       THEN /\ cpc' = "raise"
            /\ exc' = "AttributeError"
            /\ workers' = workers
       ELSE /\ cpc' = "poll"
            /\ exc' = "none"
            /\ workers' = [workers EXCEPT ![comms] =
                   Put(@, <<ClientCommand("SEND", pkt, callNo + 1),
                            ClientCommand("RECEIVE", NoPkt, callNo + 1)>>)]

\* sp1.py:164-169: close(timeout=10) up to the polling loop.
CloseBegin(t) ==
    /\ callNo' = callNo + 1
    /\ cop' = "close"
    /\ reply' = NoReply
    /\ now' = t % TicksPerSec
    /\ began' = now'
    /\ start' = IntTime(now')
    /\ ctimeout' = CloseTimeout
    /\ comms' = comms
    /\ IF comms = 0
       THEN /\ cpc' = "raise"
            /\ exc' = "AttributeError"
            /\ workers' = workers
       ELSE /\ cpc' = "poll"
            /\ exc' = "none"
            /\ workers' = [workers EXCEPT ![comms] =
                   Put(@, <<ClientCommand("CLOSE", NoPkt, callNo + 1)>>)]

\* OnReply with send_and_recieve skipping every reply that is no SUCCESS.
OnReplySkipsErrors(op, r) ==
    CASE op = "connect" -> IF IsSuccess(r) THEN "ret" ELSE "raise"
      [] op = "send"    -> IF IsSuccess(r) /\ r.data.k # "none" THEN "ret" ELSE "poll"
      [] op = "close"   -> IF IsSuccess(r) THEN "join" ELSE "raise"

\* What a polling loop does with the reply it took from reply_q:
\* connect (sp1.py:41-44), send_and_recieve (64-68), close (173-178).
\* "ret" returns, "raise" raises ConnectError, "join" is close's
\* self.comms.join() before it returns, "poll" goes round the loop again.
OnReply(op, r) ==
    CASE op = "connect" -> IF IsSuccess(r) THEN "ret" ELSE "raise"
      [] op = "send"    -> IF CarriesData(r)
                           THEN (IF IsSuccess(r) THEN "ret" ELSE "raise")
                           ELSE "poll"
      [] op = "close"   -> IF IsSuccess(r) THEN "join" ELSE "raise"

\* What follows a polling loop that ran out (sp1.py:48, 72, 182-184):
\* connect and send_and_recieve raise, close joins the worker first.
OnExhausted(op) == IF op = "close" THEN "join" ELSE "raise"

\* Thread.join of the worker, as close calls it (sp1.py:174, 182): the
\* worker is told to shut down.
JoinRequested(w) == [w EXCEPT !.alive = FALSE]

\* One turn of the polling loop of connect, send_and_recieve or close
\* (sp1.py:38-47, 61-71, 170-181): the loop condition, then
\* reply_q.get(False).
Poll ==
    /\ cpc = "poll"
    /\ UNCHANGED <<pc, callsLeft, objVars, infoVars, printVars, log>>
    /\ UNCHANGED <<cop, ctimeout, start, began, now, callNo, comms>>
    /\ IF ~LoopContinues(now, start, ctimeout)
       THEN /\ cpc' = OnExhausted(cop)
            /\ exc' = "CommandTimedOutException"
            /\ reply' = reply
            /\ workers' = IF OnExhausted(cop) = "join"
                          THEN [workers EXCEPT ![comms] = JoinRequested(@)]
                          ELSE workers
       ELSE IF workers[comms].reply_q = <<>>
       THEN /\ cpc' = "sleep"
            /\ UNCHANGED <<exc, reply, workers>>
       ELSE LET r == Head(workers[comms].reply_q)
                to == OnReply(cop, r)
                w1 == [workers[comms] EXCEPT !.reply_q = Tail(@)]
            IN  /\ cpc' = to
                /\ exc' = IF to = "raise" THEN "ConnectError" ELSE "none"
                /\ reply' = IF to = "poll" THEN reply ELSE r
                /\ workers' = [workers EXCEPT ![comms] =
                                 IF to = "join" THEN JoinRequested(w1) ELSE w1]

\* sp1.py:46, 70, 180: time.sleep(0.1) after queue.Empty.
Sleep ==
    /\ cpc = "sleep"
    /\ now' = now + 1
    /\ cpc' = "poll"
    /\ UNCHANGED <<pc, callsLeft, objVars, infoVars, printVars, log>>
    /\ UNCHANGED <<cop, exc, reply, ctimeout, start, began, callNo, comms, workers>>

\* Join with close leaving self.comms as it was.
JoinKeepsComms ==
    /\ cpc = "join"
    /\ workers[comms].status = "stopped"
    /\ comms' = comms
    /\ cpc' = IF exc = "none" THEN "ret" ELSE "raise"
    /\ UNCHANGED <<pc, callsLeft, objVars, infoVars, printVars, log>>
    /\ UNCHANGED <<cop, exc, reply, ctimeout, start, began, now, callNo, workers>>

\* sp1.py:174-176 and 182-184: self.comms.join() returns once the worker
\* has shut down; then self.comms = None and close returns, or raises
\* CommandTimedOutException when its loop had run out.
Join ==
    /\ cpc = "join"
    /\ workers[comms].status = "stopped"
    /\ comms' = 0
    /\ cpc' = IF exc = "none" THEN "ret" ELSE "raise"
    /\ UNCHANGED <<pc, callsLeft, objVars, infoVars, printVars, log>>
    /\ UNCHANGED <<cop, exc, reply, ctimeout, start, began, now, callNo, workers>>

\* ---------------------------------------------------------- the worker
\* comms.py is not in src/: the worker is modelled from the specification
\* (one worker per channel, instructions consumed in order, exactly one
\* reply envelope per instruction, SUCCESS or ERROR, carrying bytes or an
\* error detail; a blocking socket call is never interrupted).

\* The worker takes the next instruction and enters its blocking socket
\* call, which will return ("busy") or never does ("hung"); sts is the set
\* of these the environment allows.
WorkerTake(i, sts) ==
    /\ workers[i].status = "idle"
    /\ workers[i].alive
    /\ workers[i].cmd_q # <<>>
    /\ \E st \in sts :
          workers' = [workers EXCEPT ![i] =
              [workers[i] EXCEPT !.status = st,
                                 !.cur = Head(workers[i].cmd_q),
                                 !.cmd_q = Tail(workers[i].cmd_q)]]
    /\ UNCHANGED <<pc, callsLeft, objVars, infoVars, printVars, log>>
    /\ UNCHANGED <<cpc, cop, exc, reply, ctimeout, start, began, now, callNo, comms>>

\* The call numbered req is in its polling loop and the loop goes on.
InTime(req) ==
    /\ callNo = req
    /\ cpc \in {"poll", "sleep"}
    /\ LoopContinues(now, start, ctimeout)

\* The contents a received frame can have: told apart where the program
\* reads them (getPrinterInformation), one value elsewhere.
FrameValues == IF prog = "info" THEN 0..MaxValue ELSE {0}

\* The reply envelopes an instruction can end in.
Replies(w, intime) ==
    LET ok    == {ClientReply("SUCCESS", NoneData, intime)}
        err   == {ClientReply("ERROR", ErrData(w.cur.req), intime)}
        bytes == {ClientReply("SUCCESS",
                      [BytesData(w.lastSent, rc, w.cur.req) EXCEPT !.val = v],
                      intime) :
                     rc \in ReturnCodes, v \in FrameValues}
    IN  IF w.cur.type = "RECEIVE" THEN bytes \cup err ELSE ok \cup err

\* The worker's socket call returns and the worker enqueues its one reply.
WorkerReply(i) ==
    /\ workers[i].status = "busy"
    /\ \E r \in Replies(workers[i], InTime(workers[i].cur.req)) :
          workers' = [workers EXCEPT ![i] =
              [workers[i] EXCEPT
                        !.status = "idle",
                        !.reply_q = Append(@, r),
                        !.lastSent = IF workers[i].cur.type = "SEND" /\ IsSuccess(r)
                                     THEN workers[i].cur.pkt.cmd ELSE @]]
    /\ UNCHANGED <<pc, callsLeft, objVars, infoVars, printVars, log>>
    /\ UNCHANGED <<cpc, cop, exc, reply, ctimeout, start, began, now, callNo, comms>>

\* A worker that was told to shut down leaves its loop when it is not
\* inside a socket call.
WorkerExit(i) ==
    /\ workers[i].status = "idle"
    /\ ~workers[i].alive
    /\ workers' = [workers EXCEPT ![i].status = "stopped"]
    /\ UNCHANGED <<pc, callsLeft, objVars, infoVars, printVars, log>>
    /\ UNCHANGED <<cpc, cop, exc, reply, ctimeout, start, began, now, callNo, comms>>

\* A worker whose socket calls may take any time, or never return.
Take == \E i \in 1..Len(workers) : WorkerTake(i, {"busy", "hung"})

\* A worker whose socket calls all return.
TakePrompt == \E i \in 1..Len(workers) : WorkerTake(i, {"busy"})

Answer == \E i \in 1..Len(workers) : WorkerReply(i)

Exit == \E i \in 1..Len(workers) : WorkerExit(i)

\* ------------------------------------------------------------- images
Remainders == {0, 1, SegSize \div 2, SegSize - 1}

ImageLens == {k * SegSize + r : k \in 0..MaxSegs, r \in Remainders}

\* The image bytes: one image for each length and seed.
Image(len, seed) == [i \in 1..len |-> (i * (seed + 3) + seed) % 256]

\* bytearray(n): n zero bytes.
Zeros(n) == [i \in 1..n |-> 0]

\* imageBytes[a:b], a Python slice (0-based, end exclusive, clipped).
Slice(bytes, a, b) ==
    LET hi == IF b < Len(bytes) THEN b ELSE Len(bytes)
    IN  IF a >= hi THEN <<>> ELSE SubSeq(bytes, a + 1, hi)

\* SegmentBytes without the padding of a short last segment.
SegmentBytesNoPad(imageBytes, sent, toSend) ==
    Slice(imageBytes, sent, sent + 960)

\* sp1.py:238-242: the payload of the next SendImage command.
SegmentBytes(imageBytes, sent, toSend) ==
    IF toSend >= 960
    THEN Slice(imageBytes, sent, sent + 960)
    ELSE Slice(imageBytes, sent, sent + toSend) \o Zeros(960 - toSend)

\* ----------------------------------------------------------- progress
\* A value passed as `current`: the number n / d.
Whole(n) == [n |-> n, d |-> 1]

\* sp1.py:247: 40 + 30 * bytesSent / len(imageBytes), a true division.
SegmentProgress(sent, len) == [n |-> 40 * len + 30 * sent, d |-> len]

Leq(p, q) == p.n * q.d <= q.n * p.d

\* progress(current, progressTotal, status=...).
Report(cur, status) ==
    Append(progressLog,
           [current |-> cur, total |-> ProgressTotal, status |-> status])

\* ---------------------------------------------- the commands of sp1.py
\* sp1.py:109-114, sendPrePrintCommand(cmdNumber).
PrePrintPkt(n) == Pkt("PrePrint", n, 0, 0, <<>>)

\* sp1.py:116-121, sendLockCommand(lockState).
LockPkt(lockState) == Pkt("PrinterLock", lockState, 0, 0, <<>>)

\* sp1.py:123-127, sendResetCommand().
ResetPkt == Pkt("Reset", 0, 0, 0, <<>>)

\* sp1.py:129-136, sendPrepImageCommand(format, options, imgLength).
PrepImagePkt(format, options, imgLength) ==
    Pkt("PrepImage", format, options, imgLength, <<>>)

\* sp1.py:138-144, sendSendImageCommand(sequenceNumber, payloadBytes).
SendImagePkt(sequenceNumber, payloadBytes) ==
    Pkt("SendImage", sequenceNumber, 0, 0, payloadBytes)

\* sp1.py:146-150, sendT83Command().
T83Pkt == Pkt("Type83", 0, 0, 0, <<>>)

\* sp1.py:152-156, sendT195Command().
T195Pkt == Pkt("Type195", 0, 0, 0, <<>>)

\* sp1.py:158-162, sendLockStateCommand().
LockStatePkt == Pkt("LockState", 0, 0, 0, <<>>)

\* sp1.py:85-89, getPrinterVersion().
VersionPkt == Pkt("Version", 0, 0, 0, <<>>)

\* sp1.py:91-95, getPrinterModelName().
ModelNamePkt == Pkt("ModelName", 0, 0, 0, <<>>)

\* The log of what the program did, in order: connect, cmd (a sendCommand,
\* with its packet) and close entries.
LogEntry(ev, pkt) == [ev |-> ev, pkt |-> pkt]

DoConnect(t) ==
    /\ ConnectBegin(t)
    /\ log' = Append(log, LogEntry("connect", NoPkt))

DoCommand(pkt, t) ==
    /\ SendBegin(pkt, t)
    /\ log' = Append(log, LogEntry("cmd", pkt))

DoClose(t) ==
    /\ CloseBegin(t)
    /\ log' = Append(log, LogEntry("close", NoPkt))

\* The previous Session call of the program returned.
Returned(label) == pc = label /\ cpc = "ret"

\* sp1.py:81 and 269: the return code in the header of the decoded reply.
ReturnCode(r) == r.data.rc

\* IsSentinel with the test inverted.
IsSentinelInverted(rc) == rc # RTN_E_RCV_FRAME

\* sp1.py:269: printStateCmd.header['returnCode'] is Packet.RTN_E_RCV_FRAME.
\* Return codes are small integers, for which `is` is equality.
IsSentinel(rc) == rc = RTN_E_RCV_FRAME

\* ----------------------------------------------------- checkPrintStatus
\* sp1.py:267-268 and 273: the head of the loop, for _ in range(timeout),
\* after `done` turns: the next Type195 command, or return False.
CheckLoop(done, tmo, t) ==
    IF done < tmo
    THEN /\ DoCommand(T195Pkt, t)
         /\ pc' = "cps_reply"
         /\ printStatus' = printStatus
    ELSE /\ pc' = "cps_ret"
         /\ printStatus' = FALSE
         /\ now' = t
         /\ UNCHANGED <<cpc, cop, exc, reply, ctimeout, start, began, callNo,
                        comms, workers, log>>

\* sp1.py:268-272: the reply to a Type195 command: return True on the
\* sentinel, else time.sleep(1) and the next turn of the loop.
CheckReply ==
    /\ Returned("cps_reply")
    /\ rcLog' = Append(rcLog, ReturnCode(reply))
    /\ IF IsSentinel(ReturnCode(reply))
       THEN /\ pc' = "cps_ret"
            /\ printStatus' = TRUE
            /\ attempt' = attempt
            /\ UNCHANGED <<sessVars, log>>
       ELSE /\ attempt' = attempt + 1
            /\ CheckLoop(attempt + 1, pollTimeout, now + TicksPerSec)
    /\ UNCHANGED <<callsLeft, objVars, infoVars, imgVars, segVars, x, pollTimeout, progressLog>>

\* A caller of checkPrintStatus(timeout) alone, on a fresh connection.
PollConnect ==
    /\ prog = "poll" /\ pc = "start" /\ cpc = "idle"
    /\ DoConnect(now)
    /\ pc' = "poll_connect"
    /\ UNCHANGED <<callsLeft, objVars, infoVars, printVars>>

PollCall ==
    /\ prog = "poll" /\ Returned("poll_connect")
    /\ attempt' = 0
    /\ CheckLoop(0, pollTimeout, now)
    /\ UNCHANGED <<callsLeft, objVars, infoVars, imgVars, segVars, x, pollTimeout, rcLog,
                   progressLog>>

PollDone ==
    /\ prog = "poll" /\ pc = "cps_ret"
    /\ pc' = "done"
    /\ UNCHANGED <<callsLeft, sessVars, objVars, infoVars, printVars, log>>

\* ----------------------------------------------------------- printPhoto
\* sp1.py:206-209.
PP_Start ==
    /\ prog = "printPhoto" /\ pc = "start" /\ cpc = "idle"
    /\ progressLog' = Report(Whole(0), "connecting")
    /\ DoConnect(now)
    /\ pc' = "pp_connect1"
    /\ UNCHANGED <<callsLeft, objVars, infoVars, imgVars, segVars, x, pollVars>>

\* sp1.py:210-212: the first PrePrint command.
PP_Connected1 ==
    /\ Returned("pp_connect1")
    /\ progressLog' = Report(Whole(10), "connected")
    /\ x' = 1
    /\ DoCommand(PrePrintPkt(1), now)
    /\ pc' = "pp_preprint"
    /\ UNCHANGED <<callsLeft, objVars, infoVars, imgVars, segVars, pollVars>>

\* sp1.py:211-213: for x in range(1, 9), then close.
PP_PrePrint ==
    /\ Returned("pp_preprint")
    /\ IF x + 1 < 9
       THEN /\ x' = x + 1
            /\ DoCommand(PrePrintPkt(x + 1), now)
            /\ pc' = "pp_preprint"
       ELSE /\ x' = x
            /\ DoClose(now)
            /\ pc' = "pp_close1"
    /\ UNCHANGED <<callsLeft, objVars, infoVars, imgVars, segVars, pollVars, progressLog>>

\* sp1.py:216-217, 223-224, 230-231: time.sleep(1), then connect.
PP_Reconnect(from, to) ==
    /\ Returned(from)
    /\ DoConnect(now + TicksPerSec)
    /\ pc' = to
    /\ UNCHANGED <<callsLeft, objVars, infoVars, printVars>>

PP_Closed1 == PP_Reconnect("pp_close1", "pp_connect2")

\* sp1.py:218-219.
PP_Connected2 ==
    /\ Returned("pp_connect2")
    /\ progressLog' = Report(Whole(20), "locking")
    /\ DoCommand(LockPkt(1), now)
    /\ pc' = "pp_lock"
    /\ UNCHANGED <<callsLeft, objVars, infoVars, imgVars, segVars, x, pollVars>>

\* sp1.py:213, 220, 227, 249: self.close() after the phase's last command.
PP_Close(from, to) ==
    /\ Returned(from)
    /\ DoClose(now)
    /\ pc' = to
    /\ UNCHANGED <<callsLeft, objVars, infoVars, printVars>>

PP_Locked == PP_Close("pp_lock", "pp_close2")

PP_Closed2 == PP_Reconnect("pp_close2", "pp_connect3")

\* sp1.py:225-226.
PP_Connected3 ==
    /\ Returned("pp_connect3")
    /\ progressLog' = Report(Whole(30), "resetting")
    /\ DoCommand(ResetPkt, now)
    /\ pc' = "pp_reset"
    /\ UNCHANGED <<callsLeft, objVars, infoVars, imgVars, segVars, x, pollVars>>

PP_ResetDone == PP_Close("pp_reset", "pp_close3")

PP_Closed3 == PP_Reconnect("pp_close3", "pp_connect4")

\* sp1.py:232-233.
PP_Connected4 ==
    /\ Returned("pp_connect4")
    /\ progressLog' = Report(Whole(40), "about to send")
    /\ DoCommand(PrepImagePkt(2, 0, imgLen), now)
    /\ pc' = "pp_prep"
    /\ UNCHANGED <<callsLeft, objVars, infoVars, imgVars, segVars, x, pollVars>>

\* TransferLoop with the sequence numbers counted from 1.
TransferLoopFromOne(toSend, sent, seg) ==
    IF toSend > 0
    THEN /\ DoCommand(SendImagePkt(seg + 1,
                         SegmentBytes(Image(imgLen, imgSeed), sent, toSend)), now)
         /\ pc' = "pp_segment"
    ELSE /\ DoCommand(T83Pkt, now)
         /\ pc' = "pp_t83"

\* sp1.py:237-243 and 248: the head of the transfer loop: the next
\* SendImage command while bytesToSend > 0, then the Type83 command.
TransferLoop(toSend, sent, seg) ==
    IF toSend > 0
    THEN /\ DoCommand(SendImagePkt(seg,
                         SegmentBytes(Image(imgLen, imgSeed), sent, toSend)), now)
         /\ pc' = "pp_segment"
    ELSE /\ DoCommand(T83Pkt, now)
         /\ pc' = "pp_t83"

\* sp1.py:234-237.
PP_Prepared ==
    /\ Returned("pp_prep")
    /\ bytesToSend' = imgLen
    /\ bytesSent' = 0
    /\ segment' = 0
    /\ TransferLoop(imgLen, 0, 0)
    /\ UNCHANGED <<callsLeft, objVars, infoVars, imgVars, x, pollVars, progressLog>>

\* sp1.py:244-247, then the head of the loop again.
PP_SegmentSent ==
    /\ Returned("pp_segment")
    /\ segment' = segment + 1
    /\ bytesSent' = bytesSent + 960
    /\ bytesToSend' = bytesToSend - 960
    /\ progressLog' = Report(SegmentProgress(bytesSent + 960, imgLen), "segment")
    /\ TransferLoop(bytesToSend - 960, bytesSent + 960, segment + 1)
    /\ UNCHANGED <<callsLeft, objVars, infoVars, imgVars, x, pollVars>>

PP_T83Done == PP_Close("pp_t83", "pp_close4")

\* sp1.py:250-253.
PP_Closed4 ==
    /\ Returned("pp_close4")
    /\ progressLog' = Report(Whole(70), "print started")
    /\ DoConnect(now + TicksPerSec)
    /\ pc' = "pp_connect5"
    /\ UNCHANGED <<callsLeft, objVars, infoVars, imgVars, segVars, x, pollVars>>

\* sp1.py:254-256.
PP_Command(from, pkt, to) ==
    /\ Returned(from)
    /\ DoCommand(pkt, now)
    /\ pc' = to
    /\ UNCHANGED <<callsLeft, objVars, infoVars, printVars>>

\* PP_Connected5 with Version sent in the place of LockState.
PP_Connected5VersionFirst == PP_Command("pp_connect5", VersionPkt, "pp_lockstate")

PP_Connected5 == PP_Command("pp_connect5", LockStatePkt, "pp_lockstate")

PP_LockStateDone == PP_Command("pp_lockstate", VersionPkt, "pp_version")

PP_VersionDone == PP_Command("pp_version", ModelNamePkt, "pp_model")

\* sp1.py:257-258: progress(90), then checkPrintStatus(30).
PP_ModelDone ==
    /\ Returned("pp_model")
    /\ progressLog' = Report(Whole(90), "checking")
    /\ pollTimeout' = PollAttempts
    /\ attempt' = 0
    /\ CheckLoop(0, PollAttempts, now)
    /\ UNCHANGED <<callsLeft, objVars, infoVars, imgVars, segVars, x, rcLog>>

\* PP_Status with the two status texts exchanged.
PP_StatusSwapped ==
    /\ prog = "printPhoto" /\ pc = "cps_ret"
    /\ progressLog' = Report(Whole(100),
                             IF printStatus THEN "timed out" ELSE "complete")
    /\ DoClose(now)
    /\ pc' = "pp_close5"
    /\ UNCHANGED <<callsLeft, objVars, infoVars, imgVars, segVars, x, pollVars>>

\* sp1.py:259-263: progress(100) with the outcome's text, then close.
PP_Status ==
    /\ prog = "printPhoto" /\ pc = "cps_ret"
    /\ progressLog' = Report(Whole(100),
                             IF printStatus THEN "complete" ELSE "timed out")
    /\ DoClose(now)
    /\ pc' = "pp_close5"
    /\ UNCHANGED <<callsLeft, objVars, infoVars, imgVars, segVars, x, pollVars>>

\* sp1.py:263: printPhoto returns.
PP_Closed5 ==
    /\ Returned("pp_close5")
    /\ pc' = "done"
    /\ UNCHANGED <<callsLeft, sessVars, objVars, infoVars, printVars, log>>

\* ------------------------------------------------ getPrinterInformation
\* sp1.py:97-101, getPrintCount().
PrintCountPkt == Pkt("PrintCount", 0, 0, 0, <<>>)

\* A field of a decoded frame: which field, of the reply to which command,
\* with which contents.
Field(name, cmd, val) == <<name, cmd, val>>

\* sp1.py:81, packetFactory.decode(reply.data): the decoded response, with
\* the header and the payload of its command type.
Decode(r) ==
    LET c == r.data.cmd
        v == r.data.val
    IN  [header  |-> [battery    |-> Field("battery", c, v),
                      printCount |-> Field("printCount", c, v),
                      returnCode |-> r.data.rc],
         payload |-> CASE c = "ModelName"  -> [modelName |-> Field("modelName", c, v)]
                       [] c = "PrintCount" -> [printHistory |-> Field("printHistory", c, v)]
                       [] OTHER            -> [content |-> Field("payload", c, v)]]

NoResponse == Decode(NoReply)

\* printerInformation before it is assigned.
NoInformation == [specs |-> "-"]

\* Information with battery and printCount read from the ModelName reply.
InformationFromModel(version, model, count) ==
    [version    |-> version.payload,
     model      |-> model.payload.modelName,
     battery    |-> model.header.battery,
     printCount |-> model.header.printCount,
     specs      |-> "unknown",
     count      |-> count.payload.printHistory]

\* sp1.py:193-200: the mapping getPrinterInformation returns.
Information(version, model, count) ==
    [version    |-> version.payload,
     model      |-> model.payload.modelName,
     battery    |-> version.header.battery,
     printCount |-> version.header.printCount,
     specs      |-> "unknown",
     count      |-> count.payload.printHistory]

\* sp1.py:189.
GI_Start ==
    /\ prog = "info" /\ pc = "start" /\ cpc = "idle"
    /\ DoConnect(now)
    /\ pc' = "gi_connect"
    /\ UNCHANGED <<callsLeft, objVars, infoVars, printVars>>

\* sp1.py:190, the call of getPrinterVersion().
GI_Connected ==
    /\ prog = "info" /\ Returned("gi_connect")
    /\ DoCommand(VersionPkt, now)
    /\ pc' = "gi_version"
    /\ UNCHANGED <<callsLeft, objVars, infoVars, printVars>>

\* sp1.py:190-191.
GI_VersionDone ==
    /\ Returned("gi_version")
    /\ printerVersion' = Decode(reply)
    /\ DoCommand(ModelNamePkt, now)
    /\ pc' = "gi_model"
    /\ UNCHANGED <<callsLeft, objVars, printVars>>
    /\ UNCHANGED <<printerModel, printCount, printerInformation>>

\* sp1.py:191-192.
GI_ModelDone ==
    /\ Returned("gi_model")
    /\ printerModel' = Decode(reply)
    /\ DoCommand(PrintCountPkt, now)
    /\ pc' = "gi_count"
    /\ UNCHANGED <<callsLeft, objVars, printVars>>
    /\ UNCHANGED <<printerVersion, printCount, printerInformation>>

\* sp1.py:192-201.
GI_CountDone ==
    /\ Returned("gi_count")
    /\ printCount' = Decode(reply)
    /\ printerInformation' = Information(printerVersion, printerModel, Decode(reply))
    /\ DoClose(now)
    /\ pc' = "gi_close"
    /\ UNCHANGED <<callsLeft, objVars, printVars>>
    /\ UNCHANGED <<printerVersion, printerModel>>

\* sp1.py:202: return printerInformation.
GI_Closed ==
    /\ Returned("gi_close")
    /\ pc' = "done"
    /\ UNCHANGED <<callsLeft, sessVars, objVars, infoVars, printVars, log>>

\* Propagate with a close of the connection before the error is passed on.
PropagateAfterClose ==
    /\ prog \in {"printPhoto", "poll", "info"}
    /\ pc \notin {"start", "done", "raised"}
    /\ cpc = "raise"
    /\ DoClose(now)
    /\ pc' = "raised"
    /\ UNCHANGED <<callsLeft, objVars, infoVars, printVars>>

\* sp1.py:81: packetFactory.decode(reply.data) raises for a frame it cannot
\* decode, after send_and_recieve has returned the reply to sendCommand.
DecodeFails ==
    /\ cop = "send" /\ cpc = "ret"
    /\ pc \notin {"cps_ret", "done", "raised"}
    /\ cpc' = "raise"
    /\ exc' = "DecodeError"
    /\ UNCHANGED <<pc, callsLeft, objVars, infoVars, printVars, log>>
    /\ UNCHANGED <<cop, reply, ctimeout, start, began, now, callNo, comms, workers>>

\* No Session call is made inside a try: an exception leaves the program.
Propagate ==
    /\ prog \in {"printPhoto", "poll", "info"}
    /\ pc \notin {"start", "done", "raised"}
    /\ cpc = "raise"
    /\ pc' = "raised"
    /\ UNCHANGED <<callsLeft, sessVars, objVars, infoVars, printVars, log>>

\* ------------------------------------------------------ the free client
\* A caller of the Session API that makes any calls in any order, going on
\* after an exception as a caller that catches it does.
ClientCall ==
    /\ prog = "client"
    /\ cpc \in {"idle", "ret", "raise"}
    /\ callsLeft > 0
    /\ callsLeft' = callsLeft - 1
    /\ \/ ConnectBegin(now)
       \/ SendBegin(VersionPkt, now)
       \/ CloseBegin(now)
    /\ UNCHANGED <<pc, objVars, infoVars, printVars, log>>

\* sp1.py:18-27: the object after SP1(timeout=param).
InitObject(param) ==
    /\ ctorTimeout = param
    /\ timeout = InitTimeout(param)
    /\ comms = 0
    /\ workers = <<>>

InitCall ==
    /\ log = <<>>
    /\ cpc = "idle"
    /\ cop = "-"
    /\ exc = "none"
    /\ reply = NoReply
    /\ ctimeout = 0
    /\ start = 0
    /\ began = 0
    /\ callNo = 0

InitLocals ==
    /\ bytesToSend = 0
    /\ bytesSent = 0
    /\ segment = 0
    /\ x = 0
    /\ attempt = 0
    /\ printStatus = FALSE
    /\ progressLog = <<>>
    /\ rcLog = <<>>
    /\ printerVersion = NoResponse
    /\ printerModel = NoResponse
    /\ printCount = NoResponse
    /\ printerInformation = NoInformation

\* A free client, at any instant of the second.
InitSession ==
    /\ InitObject(DefaultTimeout)
    /\ InitCall
    /\ InitLocals
    /\ now \in 0..(TicksPerSec - 1)
    /\ prog = "client"
    /\ pc = "start"
    /\ callsLeft = MaxCalls
    /\ imgLen = 0 /\ imgSeed = 0 /\ pollTimeout = 0

NextSession ==
    \/ ClientCall \/ Poll \/ Sleep \/ Join
    \/ Take \/ Answer \/ Exit

SpecSession == InitSession /\ [][NextSession]_vars

\* A free client of an object made with any timeout parameter.
InitTimed ==
    /\ \E param \in CtorTimeouts : InitObject(param)
    /\ InitCall
    /\ InitLocals
    /\ now \in 0..(TicksPerSec - 1)
    /\ prog = "client"
    /\ pc = "start"
    /\ callsLeft = MaxTimedCalls
    /\ imgLen = 0 /\ imgSeed = 0 /\ pollTimeout = 0

SpecTimeout == InitTimed /\ [][NextSession]_vars

\* A free client that makes up to MaxLifeCalls calls, so that a channel's
\* whole life (connect, commands, close) and a call after it are covered.
InitLife ==
    /\ InitObject(DefaultTimeout)
    /\ InitCall
    /\ InitLocals
    /\ now = 0
    /\ prog = "client"
    /\ pc = "start"
    /\ callsLeft = MaxLifeCalls
    /\ imgLen = 0 /\ imgSeed = 0 /\ pollTimeout = 0

\* Every socket call of the worker returns, after any time.
NextLife ==
    \/ ClientCall \/ Poll \/ Sleep \/ Join
    \/ TakePrompt \/ Answer \/ Exit

SpecLife == InitLife /\ [][NextLife]_vars

\* printPhoto(imageBytes, progress) for an image, checkPrintStatus(timeout)
\* for a timeout, or getPrinterInformation().
InitPrint ==
    /\ InitObject(DefaultTimeout)
    /\ InitCall
    /\ InitLocals
    /\ now = 0
    /\ pc = "start"
    /\ callsLeft = 0
    /\ \/ /\ prog = "printPhoto"
          /\ imgLen \in ImageLens
          /\ imgSeed \in 0..MaxSeed
          /\ pollTimeout = 0
       \/ /\ prog = "poll"
          /\ imgLen = 0 /\ imgSeed = 0
          /\ pollTimeout \in 0..MaxPollTimeout
       \/ /\ prog = "info"
          /\ imgLen = 0 /\ imgSeed = 0 /\ pollTimeout = 0

\* No worker has a step to take: each is inside a socket call that never
\* returns, has shut down, or waits for an instruction.
Settled ==
    \A i \in 1..Len(workers) :
        \/ workers[i].status \in {"hung", "stopped"}
        \/ workers[i].status = "idle" /\ workers[i].alive /\ workers[i].cmd_q = <<>>

\* The printer answers every instruction, and at once: the client runs
\* when no worker has a step to take.
NextPrint ==
    \/ TakePrompt \/ Answer \/ Exit
    \/ Settled /\ PP_Start
    \/ Settled /\ PP_Connected1
    \/ Settled /\ PP_PrePrint
    \/ Settled /\ PP_Closed1
    \/ Settled /\ PP_Connected2
    \/ Settled /\ PP_Locked
    \/ Settled /\ PP_Closed2
    \/ Settled /\ PP_Connected3
    \/ Settled /\ PP_ResetDone
    \/ Settled /\ PP_Closed3
    \/ Settled /\ PP_Connected4
    \/ Settled /\ PP_Prepared
    \/ Settled /\ PP_SegmentSent
    \/ Settled /\ PP_T83Done
    \/ Settled /\ PP_Closed4
    \/ Settled /\ PP_Connected5
    \/ Settled /\ PP_LockStateDone
    \/ Settled /\ PP_VersionDone
    \/ Settled /\ PP_ModelDone
    \/ Settled /\ PP_Status
    \/ Settled /\ PP_Closed5
    \/ Settled /\ CheckReply
    \/ Settled /\ PollConnect
    \/ Settled /\ PollCall
    \/ Settled /\ PollDone
    \/ Settled /\ GI_Start
    \/ Settled /\ GI_Connected
    \/ Settled /\ GI_VersionDone
    \/ Settled /\ GI_ModelDone
    \/ Settled /\ GI_CountDone
    \/ Settled /\ GI_Closed
    \/ Settled /\ Propagate
    \/ Settled /\ Poll
    \/ Settled /\ Join

SpecPrint == InitPrint /\ [][NextPrint]_vars

\* printPhoto with a printer that may fail in every way: a socket call
\* may never return (the call then times out), an instruction may end in
\* an ERROR reply, a frame may not decode.
InitAbort ==
    /\ InitObject(DefaultTimeout)
    /\ InitCall
    /\ InitLocals
    /\ now = 0
    /\ pc = "start"
    /\ callsLeft = 0
    /\ prog = "printPhoto"
    /\ imgLen \in {k * SegSize + 1 : k \in 0..MaxAbortSegs}
    /\ imgSeed = 0
    /\ pollTimeout = 0

NextAbort ==
    \/ Take \/ Answer \/ Exit
    \/ Settled /\ Poll
    \/ Settled /\ Sleep
    \/ Settled /\ Join
    \/ Settled /\ DecodeFails
    \/ Settled /\ Propagate
    \/ Settled /\ PP_Start
    \/ Settled /\ PP_Connected1
    \/ Settled /\ PP_PrePrint
    \/ Settled /\ PP_Closed1
    \/ Settled /\ PP_Connected2
    \/ Settled /\ PP_Locked
    \/ Settled /\ PP_Closed2
    \/ Settled /\ PP_Connected3
    \/ Settled /\ PP_ResetDone
    \/ Settled /\ PP_Closed3
    \/ Settled /\ PP_Connected4
    \/ Settled /\ PP_Prepared
    \/ Settled /\ PP_SegmentSent
    \/ Settled /\ PP_T83Done
    \/ Settled /\ PP_Closed4
    \/ Settled /\ PP_Connected5
    \/ Settled /\ PP_LockStateDone
    \/ Settled /\ PP_VersionDone
    \/ Settled /\ PP_ModelDone
    \/ Settled /\ CheckReply
    \/ Settled /\ PP_Status
    \/ Settled /\ PP_Closed5

SpecAbort == InitAbort /\ [][NextAbort]_vars

\* =============================================================== claims
\* The commands of type cmd the program sent, in order.
Sent(cmd) == SelectSeq(log, LAMBDA e : e.ev = "cmd" /\ e.pkt.cmd = cmd)

Currents == [i \in 1..Len(progressLog) |-> progressLog[i].current]

PrintDone == prog = "printPhoto" /\ pc = "done"

\* C1: across a successful printPhoto run the `current` values passed to
\* the progress callback never decrease, the first is 0 and the last 100.
C1_ProgressMonotone ==
    PrintDone =>
        /\ Len(Currents) >= 1
        /\ Currents[1] = Whole(0)
        /\ Currents[Len(Currents)] = Whole(100)
        /\ \A i \in 1..(Len(Currents) - 1) : Leq(Currents[i], Currents[i + 1])

\* The transfer loop is just over: Type83 is the last command sent.
TransferDone ==
    /\ prog = "printPhoto"
    /\ log # <<>>
    /\ log[Len(log)].ev = "cmd"
    /\ log[Len(log)].pkt.cmd = "Type83"

Payloads == [i \in 1..Len(Sent("SendImage")) |-> Sent("SendImage")[i].pkt.payload]

RECURSIVE Flatten(_)
Flatten(ss) == IF ss = <<>> THEN <<>> ELSE Head(ss) \o Flatten(Tail(ss))

\* C2: printPhoto sends ceil(L/960) SendImage payloads, each of 960 bytes,
\* the last one the remaining image bytes followed by zero bytes, and the
\* payloads in order, cut to L bytes, are the image.
C2_Segmentation ==
    TransferDone =>
        LET n   == (imgLen + SegSize - 1) \div SegSize
            img == Image(imgLen, imgSeed)
        IN  /\ Len(Payloads) = n
            /\ \A i \in 1..Len(Payloads) : Len(Payloads[i]) = SegSize
            /\ n > 0 => Payloads[n] = SubSeq(img, (n - 1) * SegSize + 1, imgLen)
                                      \o Zeros(n * SegSize - imgLen)
            /\ SubSeq(Flatten(Payloads), 1, imgLen) = img

\* C2's case: an image of two full segments and a part of a third was sent.
C2_Witness ==
    /\ TransferDone
    /\ imgLen = 2 * SegSize + SegSize \div 2
    /\ Len(Payloads) = 3

\* checkPrintStatus returned (and nothing was raised since).
CheckReturned == pc \in {"cps_ret", "pp_close5", "done"}

\* The number of the first Type195 reply that carries the sentinel, or 0.
FirstSentinel ==
    IF \E n \in 1..Len(rcLog) : rcLog[n] = RTN_E_RCV_FRAME
    THEN CHOOSE n \in 1..Len(rcLog) :
            /\ rcLog[n] = RTN_E_RCV_FRAME
            /\ \A m \in 1..(n - 1) : rcLog[m] # RTN_E_RCV_FRAME
    ELSE 0

\* C3: checkPrintStatus(timeout) returns True after exactly N Type195
\* commands when the Nth reply is the first with the sentinel, and sends no
\* Type195 after it; it returns False after exactly `timeout` commands when
\* no reply carries the sentinel.
C3_PollTermination ==
    /\ Len(Sent("Type195")) <= pollTimeout
    /\ pc = "cps_reply" => FirstSentinel = 0
    /\ CheckReturned =>
          IF FirstSentinel # 0
          THEN /\ printStatus
               /\ Len(Sent("Type195")) = FirstSentinel
               /\ Len(rcLog) = FirstSentinel
          ELSE /\ ~printStatus
               /\ Len(Sent("Type195")) = pollTimeout
               /\ Len(rcLog) = pollTimeout

\* C3's case: the second of at most three replies carried the sentinel.
C3_Witness ==
    /\ prog = "poll"
    /\ pc = "done"
    /\ pollTimeout = 3
    /\ FirstSentinel = 2
    /\ printStatus

\* C4: when a Session call of printPhoto raised ConnectError, the progress
\* callback was not invoked with current = 100 in that run.
C4_NoHundredOnFailure ==
    (prog = "printPhoto" /\ pc = "raised" /\ exc = "ConnectError") =>
        \A i \in 1..Len(Currents) : ~(Leq(Currents[i], Whole(100)) /\ Leq(Whole(100), Currents[i]))

\* C10: every progress callback invocation passes total = 100 and a
\* current in 0..100, and those made while segments are sent pass a
\* current between 40 and 70, for every image of at least one byte.
C10_ProgressRange ==
    (prog = "printPhoto" /\ imgLen >= 1) =>
        \A i \in 1..Len(progressLog) :
            /\ progressLog[i].total = 100
            /\ Leq(Whole(0), Currents[i]) /\ Leq(Currents[i], Whole(100))
            /\ progressLog[i].status = "segment" =>
                  Leq(Whole(40), Currents[i]) /\ Leq(Currents[i], Whole(70))

\* A call's polling loop ran out: it raised CommandTimedOutException.
TimedOut(op) == cop = op /\ cpc = "raise" /\ exc = "CommandTimedOutException"

\* C5: connect, send_and_recieve and close never raise CommandTimedOut
\* before their timeout has fully elapsed since the call began.
C5_NotBeforeTimeout ==
    \A op \in {"connect", "send", "close"} :
        TimedOut(op) => now - began >= ctimeout * TicksPerSec

\* The channel's worker is inside a socket call that never returns, with
\* no reply waiting: it will enqueue no reply any more.
NeverReplies ==
    /\ comms # 0
    /\ workers[comms].status = "hung"
    /\ workers[comms].reply_q = <<>>

\* The client thread and the worker thread are both scheduled, and a
\* socket call that can return does.
LiveTimeout ==
    /\ InitTimed
    /\ [][NextSession]_vars
    /\ WF_vars(Poll) /\ WF_vars(Sleep) /\ WF_vars(Join)
    /\ WF_vars(Take) /\ WF_vars(Answer) /\ WF_vars(Exit)

\* C6: with a worker that enqueues no reply, each of connect,
\* send_and_recieve and close ends by raising CommandTimedOut.
C6_Terminates ==
    \A op \in {"connect", "send", "close"} :
        (cop = op /\ cpc = "poll" /\ NeverReplies) ~> TimedOut(op)

\* C7: however close exits, the worker was joined and the Session holds
\* no channel any more.
C7_CloseNeverLeaks ==
    (cop = "close" /\ cpc \in {"ret", "raise"} /\ exc # "AttributeError") =>
        /\ comms = 0
        /\ workers[Len(workers)].status = "stopped"

\* C8 as stated: an ERROR reply that the worker delivered to a
\* send_and_recieve still in its polling loop is never turned into
\* CommandTimedOut.
C8_ErrorNeverTimedOut ==
    TimedOut("send") =>
        \A i \in 1..Len(workers[comms].reply_q) :
            LET r == workers[comms].reply_q[i]
            IN  ~(r.type = "ERROR" /\ r.data.req = callNo /\ r.intime)

\* C8 as amended, of one step: send_and_recieve enqueues SEND then RECEIVE;
\* the reply it takes from reply_q decides: SUCCESS with bytes returns that
\* reply, ERROR with its detail raises ConnectError, a reply without data
\* is skipped; CommandTimedOut is raised only when the loop's condition is
\* false, and takes no reply.
C8_Step ==
    /\ (cop' = "send" /\ callNo' = callNo + 1 /\ comms # 0) =>
          LET q == workers'[comms].cmd_q
          IN  /\ Len(q) = Len(workers[comms].cmd_q) + 2
              /\ SubSeq(q, 1, Len(q) - 2) = workers[comms].cmd_q
              /\ q[Len(q) - 1].type = "SEND" /\ q[Len(q) - 1].req = callNo'
              /\ q[Len(q)].type = "RECEIVE" /\ q[Len(q)].req = callNo'
    /\ (cop = "send" /\ cpc = "poll" /\ comms # 0) =>
          LET q == workers[comms].reply_q
          IN  /\ (q # <<>> /\ workers'[comms].reply_q = Tail(q)) =>
                    /\ (Head(q).type = "ERROR" /\ Head(q).data.k = "err") =>
                           cpc' = "raise" /\ exc' = "ConnectError"
                    /\ (Head(q).type = "SUCCESS" /\ Head(q).data.k = "bytes") =>
                           cpc' = "ret" /\ reply' = Head(q)
                    /\ Head(q).data.k = "none" => cpc' = "poll"
              /\ (cpc' = "raise" /\ exc' = "CommandTimedOutException") =>
                    /\ ~(IntTime(now) < start + CmdTimeout)
                    /\ workers'[comms].reply_q = q
              /\ (q # <<>> /\ IntTime(now) < start + CmdTimeout) =>
                    (cpc' # cpc => workers'[comms].reply_q = Tail(q))

C8_ReplyDecides == [][C8_Step]_vars

\* C8's case: send_and_recieve took an ERROR reply and raised ConnectError.
C8_Witness ==
    /\ cop = "send"
    /\ cpc = "raise"
    /\ exc = "ConnectError"
    /\ reply.type = "ERROR"
    /\ reply.data.req = callNo

\* C9: connect waits for the timeout given to the constructor before it
\* raises CommandTimedOut; it returns on a SUCCESS reply and raises
\* ConnectError with the worker's detail on an ERROR reply.
C9_ConnectTimeoutIsParameter ==
    /\ TimedOut("connect") => IntTime(now) - start = ctorTimeout
    /\ (cop = "connect" /\ cpc = "ret") => reply.type = "SUCCESS"
    /\ (cop = "connect" /\ cpc = "raise" /\ exc = "ConnectError") =>
          reply.type = "ERROR" /\ reply.data.k = "err"

\* The Session has no live channel: no connect was made yet, or close has
\* joined the worker of the last channel (it returned or raised
\* CommandTimedOut).
NoLiveChannel ==
    \/ workers = <<>>
    \/ /\ cop = "close" /\ cpc \in {"ret", "raise"}
       /\ exc \in {"none", "CommandTimedOutException"}

\* A step that begins a send/receive operation.
SendBegins == cop' = "send" /\ callNo' = callNo + 1

\* C11, of one step: a send/receive operation begun while the Session has
\* no live channel fails at once: it enqueues no instruction and does not
\* enter the polling loop.
C11_Step ==
    (SendBegins /\ NoLiveChannel) =>
        /\ cpc' = "raise"
        /\ exc' \notin {"none", "CommandTimedOutException", "ConnectError"}
        /\ workers' = workers

C11_FailsFast == [][C11_Step]_vars

\* C11's case: a send/receive operation failed at once after a channel was
\* opened by connect and closed by close.
C11_Witness ==
    /\ cop = "send"
    /\ cpc = "raise"
    /\ exc = "AttributeError"
    /\ Len(workers) = 1
    /\ workers[1].status = "stopped"
    /\ callNo = 3

\* The completion poll of printPhoto is exhausted: PollAttempts Type195
\* replies were received and none carried the sentinel.
PollExhausted ==
    /\ prog = "printPhoto"
    /\ Len(rcLog) = PollAttempts
    /\ FirstSentinel = 0

\* The completion poll of printPhoto is over.
PollOver == prog = "printPhoto" /\ (PollExhausted \/ FirstSentinel # 0)

LastProgress == progressLog[Len(progressLog)]

\* C12: when the completion poll is exhausted printPhoto raises nothing:
\* it reports current = 100 with the timed-out text, closes the last
\* connection and returns; when the poll succeeds it reports 100 with the
\* success text.
C12_PollOutcome ==
    /\ (PollOver /\ pc = "cps_ret") => cpc = "ret" /\ exc = "none"
    /\ (PollOver /\ pc \in {"pp_close5", "done", "raised"}) =>
          /\ LastProgress.current = Whole(100)
          /\ LastProgress.total = ProgressTotal
          /\ LastProgress.status = IF PollExhausted THEN "timed out" ELSE "complete"
          /\ log[Len(log)] = LogEntry("close", NoPkt)
          /\ cop = "close"
    /\ (PollOver /\ pc = "done") => comms = 0 /\ exc = "none"
    /\ (PollOver /\ pc = "pp_close5" /\ cpc = "ret") => comms = 0

\* C12's case: printPhoto returned after an exhausted completion poll.
C12_Witness ==
    /\ PollExhausted
    /\ pc = "done"
    /\ LastProgress.status = "timed out"

InfoDone == prog = "info" /\ pc = "done"

\* The decoded reply to command cmd with contents v and return code rc.
ReplyTo(cmd, v, rc) ==
    Decode(ClientReply("SUCCESS", [BytesData(cmd, rc, 0) EXCEPT !.val = v], TRUE))

\* C13: getPrinterInformation performs connect, Version, ModelName,
\* PrintCount, close in that order; when it returns no channel is live and
\* the mapping holds the Version reply's payload, the ModelName reply's
\* model name, the PrintCount reply's print history, the battery and
\* printCount of the Version reply's header, and specs = 'unknown'.
C13_Information ==
    InfoDone =>
        /\ log = <<LogEntry("connect", NoPkt), LogEntry("cmd", VersionPkt),
                   LogEntry("cmd", ModelNamePkt), LogEntry("cmd", PrintCountPkt),
                   LogEntry("close", NoPkt)>>
        /\ comms = 0
        /\ Len(workers) = 1 /\ workers[1].status = "stopped"
        /\ \E v, m, c \in 0..MaxValue : \E rv, rm, rc \in ReturnCodes :
              /\ printerVersion = ReplyTo("Version", v, rv)
              /\ printerModel = ReplyTo("ModelName", m, rm)
              /\ printCount = ReplyTo("PrintCount", c, rc)
              /\ printerInformation =
                    [version    |-> [content |-> Field("payload", "Version", v)],
                     model      |-> Field("modelName", "ModelName", m),
                     battery    |-> Field("battery", "Version", v),
                     printCount |-> Field("printCount", "Version", v),
                     specs      |-> "unknown",
                     count      |-> Field("printHistory", "PrintCount", c)]

\* C13's case: getPrinterInformation returned after three replies whose
\* contents differ.
C13_Witness ==
    /\ InfoDone
    /\ printerVersion = ReplyTo("Version", 1, RTN_E_RCV_FRAME)
    /\ printerModel = ReplyTo("ModelName", 0, RTN_E_RCV_FRAME)
    /\ printCount = ReplyTo("PrintCount", 1, RTN_E_RCV_FRAME)

\* What a log entry is: connect, close, or the command with the argument
\* that tells it from the others of its type.
Label(e) ==
    IF e.ev # "cmd" THEN <<e.ev>>
    ELSE IF e.pkt.cmd \in {"PrePrint", "PrinterLock"} THEN <<e.pkt.cmd, e.pkt.a>>
    ELSE <<e.pkt.cmd>>

Labels == [i \in 1..Len(log) |-> Label(log[i])]

Times(n, l) == [i \in 1..n |-> l]

\* The calls of a successful printPhoto that sends n segments and k polls.
FiveCycles(n, k) ==
    <<<<"connect">>>> \o [i \in 1..8 |-> <<"PrePrint", i>>] \o <<<<"close">>>>
    \o <<<<"connect">>, <<"PrinterLock", 1>>, <<"close">>>>
    \o <<<<"connect">>, <<"Reset">>, <<"close">>>>
    \o <<<<"connect">>, <<"PrepImage">>>> \o Times(n, <<"SendImage">>)
        \o <<<<"Type83">>, <<"close">>>>
    \o <<<<"connect">>, <<"LockState">>, <<"Version">>, <<"ModelName">>>>
        \o Times(k, <<"Type195">>) \o <<<<"close">>>>

\* C14: a successful printPhoto is five connect-to-close cycles that do
\* not overlap (the worker of a cycle has shut down and holds no
\* instruction when the next connect is made, so every command goes to the
\* channel of its own cycle), with the commands PrePrint 1..8;
\* PrinterLock(1); Reset; PrepImage, the SendImage segments, Type83;
\* LockState, Version, ModelName, the Type195 polls.
C14_FiveCycles ==
    prog = "printPhoto" =>
        /\ \A i \in 1..(Len(workers) - 1) :
              workers[i].status = "stopped" /\ workers[i].cmd_q = <<>>
        /\ Len(workers) = Len(SelectSeq(log, LAMBDA e : e.ev = "connect"))
        /\ PrintDone =>
              /\ Labels = FiveCycles((imgLen + SegSize - 1) \div SegSize, Len(rcLog))
              /\ Len(rcLog) \in 1..PollAttempts
              /\ Len(workers) = 5
              /\ workers[5].status = "stopped"

\* C14's case: printPhoto returned after three segments and two polls.
C14_Witness ==
    /\ PrintDone
    /\ imgLen = 2 * SegSize + 1
    /\ Len(rcLog) = 2

\* The image bytes at offsets [a, a + 960), followed by zero bytes where
\* the image ends before a + 960.
ImageAt(a) ==
    LET part == Slice(Image(imgLen, imgSeed), a, a + SegSize)
    IN  part \o Zeros(SegSize - Len(part))

\* The sequence numbers and payloads of the SendImage commands sent so far.
C15_Numbered ==
    prog = "printPhoto" =>
        \A i \in 1..Len(Sent("SendImage")) :
            /\ Sent("SendImage")[i].pkt.a = i - 1
            /\ Sent("SendImage")[i].pkt.payload = ImageAt(SegSize * (i - 1))

\* A SendImage command is sent in a step in which the reply to the command
\* before it (PrepImage or the previous segment) has been returned.
C15_Step ==
    (prog = "printPhoto" /\ Len(Sent("SendImage"))' = Len(Sent("SendImage")) + 1) =>
        /\ cpc = "ret" /\ cop = "send"
        /\ reply.type = "SUCCESS" /\ reply.data.k = "bytes"
        /\ reply.data.req = callNo
        /\ reply.data.cmd = log[Len(log)].pkt.cmd
        /\ reply.data.cmd = IF Len(Sent("SendImage")) = 0 THEN "PrepImage" ELSE "SendImage"
        /\ workers[comms].cmd_q = <<>> /\ workers[comms].reply_q = <<>>

\* C15: the k-th SendImage command (k from 0) carries sequence number k
\* and the image bytes at offsets [960k, 960k + 960); the numbers start at
\* 0 and go up by one, and a segment is sent only after the reply to the
\* previous one was received.
C15_SegmentsInOrder == [](C15_Numbered) /\ [][C15_Step]_vars

\* C15's case: three segments were sent and the last was answered.
C15_Witness ==
    /\ prog = "printPhoto"
    /\ pc = "pp_t83"
    /\ Len(Sent("SendImage")) = 3
    /\ Sent("SendImage")[3].pkt.a = 2

\* C16: the reply that decides a call is the worker's reply to an
\* instruction of that same call: the bytes send_and_recieve returns
\* answer its own RECEIVE, and no reply to an earlier, abandoned call is
\* taken as the result of a later send_and_recieve or close.
C16_RepliesPaired ==
    /\ (cop = "send" /\ cpc = "ret") => reply.data.req = callNo
    /\ (cop \in {"send", "close"} /\ cpc = "raise" /\ exc = "ConnectError") =>
          reply.data.req = callNo

\* The workers that were started and have not shut down.
LiveWorkers == {i \in 1..Len(workers) : workers[i].status # "stopped"}

\* A Session call has just raised CommandTimedOut or ConnectionFailure.
CallFailed ==
    /\ cpc = "raise"
    /\ exc \in {"CommandTimedOutException", "ConnectError"}

\* A step that begins connect: a new worker is created and started.
ConnectBegins == cop' = "connect" /\ callNo' = callNo + 1

\* C17, of one step: when connect is called after a call that ended in an
\* error, or after close has returned, it starts the only worker that is
\* started and not shut down.
C17_Step ==
    (ConnectBegins /\ (CallFailed \/ (cop = "close" /\ cpc = "ret"))) =>
        Cardinality(LiveWorkers') <= 1

C17_OneWorker == [][C17_Step]_vars

\* C18, of one step: a send/receive operation that follows a call that
\* raised CommandTimedOut or ConnectionFailure, with no connect in
\* between, enqueues nothing onto the channel and fails at once.
C18_Step ==
    (CallFailed /\ SendBegins) =>
        /\ workers' = workers
        /\ cpc' = "raise"

C18_FailedChannelUnusable == [][C18_Step]_vars

\* A Session call of printPhoto has raised, or printPhoto has passed the
\* error on to its caller.
PrintFailed == prog = "printPhoto" /\ (cpc = "raise" \/ pc = "raised")

\* C19, of one step: once a Session call inside printPhoto has raised,
\* printPhoto passes that error on unchanged and does nothing more: no
\* Session call is begun, no instruction is enqueued on any channel, no
\* channel is created and the progress callback is not invoked.
C19_Step ==
    PrintFailed =>
        /\ exc' = exc
        /\ pc' \in {pc, "raised"}
        /\ callNo' = callNo
        /\ log' = log
        /\ progressLog' = progressLog
        /\ Len(workers') = Len(workers)
        /\ \A i \in 1..Len(workers) :
              Len(workers'[i].cmd_q) <= Len(workers[i].cmd_q)

C19_AbortsAtOnce == [][C19_Step]_vars

\* C19's case: printPhoto was left by a CommandTimedOut raised after the
\* printer had been locked.
C19_Witness ==
    /\ prog = "printPhoto"
    /\ pc = "raised"
    /\ exc = "CommandTimedOutException"
    /\ Len(Sent("PrinterLock")) = 1
    /\ Len(Sent("SendImage")) = 1

\* What send_and_recieve returns carries bytes.
C20_ReturnsBytes ==
    (cop = "send" /\ cpc = "ret") =>
        reply.type = "SUCCESS" /\ reply.data.k = "bytes"

\* A step in which send_and_recieve takes a reply without data from
\* reply_q leaves it in its polling loop, with nothing returned or raised.
C20_Step ==
    (/\ cop = "send" /\ cpc = "poll" /\ comms # 0
     /\ workers[comms].reply_q # <<>>
     /\ Head(workers[comms].reply_q).data.k = "none"
     /\ Len(workers'[comms].reply_q) < Len(workers[comms].reply_q)) =>
        /\ workers'[comms].reply_q = Tail(workers[comms].reply_q)
        /\ cpc' = "poll"
        /\ reply' = reply
        /\ exc' = exc

\* C20: send_and_recieve never returns a reply envelope without data: such
\* a reply (the worker's acknowledgement of SEND) is discarded and polling
\* goes on, so sendCommand decodes only replies that carry bytes.
C20_NeverReturnsNone == [](C20_ReturnsBytes) /\ [][C20_Step]_vars

\* C20's case: send_and_recieve returned bytes after the worker had
\* acknowledged SEND with a reply without data, which was discarded.
C20_Witness ==
    /\ cop = "send"
    /\ cpc = "ret"
    /\ callNo = 2
    /\ reply.data.req = 2
    /\ workers[comms].lastSent = "Version"
    /\ workers[comms].reply_q = <<>>
    /\ workers[comms].cmd_q = <<>>
====
